---- MODULE Spec2Model ----
(***************************************************************************)
(* Plan-my-plate: the daily nutrition ledger (meal accumulation, date      *)
(* rollover, archive), the weight log and the recipe search of             *)
(* frontend/src/App.js, with /api/signup and the ingredient clean-up and   *)
(* recipe request of /api/process-ingredients of the Express server.       *)
(*                                                                         *)
(* Conventions.  A dateKey 'YYYY-MM-DD' is the day number counted from     *)
(* 2025-01-01 = 1, which keeps the order new Date(a) - new Date(b) sorts   *)
(* by.  A weight is held in tenths of a kilogram (70.5 kg = 705).  A       *)
(* JavaScript value is a record [t, n]: t is its kind, n its number.       *)
(* React state setters called by one handler or one effect are committed   *)
(* together (batched), so each handler and each effect run is one action.  *)
(* An async handler is one action per stretch between its awaits.  Page    *)
(* routing and theming are not part of the state.                          *)
(***************************************************************************)
EXTENDS Integers, Sequences, FiniteSets, TLC

VARIABLES
    today,                  \* the wall clock's day, read by getTodayDateKey()
    currentDateKey,
    dailyNutritionSummary,
    dailyMealLog,
    historicalLog,
    weightLog,
    weight,
    healthMetrics,
    userProfile,
    mealTypePreference,
    dietPreference,
    lookups,                \* handleManualLookup calls waiting for /lookup_nutrition,
                            \* each with the currentDateKey of its closure
    effectPending,          \* a dependency of the daily effect changed: it will run
    logged,                 \* history: service results logged since the summary was last reset
    lastUpsert,             \* history: day -> weight of the latest accepted write for that day
    last,                   \* history: the handler or effect that ran last, with its
                            \* input and the ledger it found
    alerted,                \* the last handler ended in alert('Please enter a valid weight.')
    owner,                  \* history: part of the state -> the identities whose logged
                            \* data it holds
    mealCount,              \* meals logged so far (bounds the run)
    weightCount,            \* weight submissions and edits so far (bounds the run)
    image,                  \* an image is selected
    ingredientText,
    errorMessage,
    status,                 \* the status line of the home page
    recipes,                \* the recipes shown, as the processImage run that delivered them
    runs,                   \* processImage calls waiting for /ocr or /get_recipes
    getRecipesSent,         \* history: the bodies posted to /get_recipes
    serverRuns,             \* /api/process-ingredients requests waiting for a service
    externalCalls,          \* history: the calls of the handler to the OCR and recipe
                            \* services, each with its outcome
    spoonacularSent,        \* history: the params sent to findByIngredients
    responses,              \* history: the responses of /api/process-ingredients
    lastExtract,            \* history: the last parsedText cleaned up, and its ingredientList
    pipeCount,              \* pipeline runs started so far (bounds the run)
    users,                  \* the User collection of the server
    lastSignup              \* history: the last request of /api/signup, with the
                            \* status of its response

ledgerVars == << today, currentDateKey, dailyNutritionSummary, dailyMealLog, historicalLog,
                 weightLog, weight, healthMetrics, userProfile, mealTypePreference,
                 dietPreference, lookups, effectPending, logged, lastUpsert, last, alerted,
                 owner, mealCount, weightCount >>

pipeVars == << image, ingredientText, errorMessage, status, recipes, runs, getRecipesSent, serverRuns,
               externalCalls, spoonacularSent, responses, lastExtract, pipeCount >>

storeVars == << users, lastSignup >>

vars == << ledgerVars, pipeVars, storeVars >>

----------------------------------------------------------------------------
(* Bounds of the model *)

MaxDaysAhead == 1
MaxMeals == 2
MaxSumMeals == 2
MaxWeights == 3

(* Program constants *)

LastSampleDay == 22
DefaultWeight == 700
StateDefaultWeight == 700
SampleTodayWeight == 690

\* The days the wall clock can show: from the newest sample entry's day on.
Days == LastSampleDay .. (LastSampleDay + MaxDaysAhead)

----------------------------------------------------------------------------
(* JavaScript values *)

Num(n) == [t |-> "num", n |-> n]
NumStr(n) == [t |-> "numstr", n |-> n]
NaNv == [t |-> "nan", n |-> 0]
Inf == [t |-> "inf", n |-> 0]
Undef == [t |-> "undefined", n |-> 0]
Junk == [t |-> "junk", n |-> 0]

\* v is truthy: what  v || d  tests
Truthy(v) ==
    CASE v.t = "num" -> v.n # 0
      [] v.t = "inf" -> TRUE
      [] v.t = "numstr" -> TRUE
      [] v.t = "junk" -> TRUE
      [] OTHER -> FALSE

\* a || d
Or(a, d) == IF Truthy(a) THEN a ELSE d

\* parseFloat of a JavaScript value: a number
ParseFloatValue(v) ==
    CASE v.t = "num" -> v
      [] v.t = "inf" -> v
      [] v.t = "numstr" -> Num(v.n)
      [] OTHER -> NaNv

IsNaN(v) == v.t = "nan"

\* x <= 0 for a number x
LeqZero(x) ==
    CASE x.t = "num" -> x.n <= 0
      [] OTHER -> FALSE

----------------------------------------------------------------------------
(* NutrientVector *)

NutrientKeys ==
    { "Calories", "FatContent", "SaturatedFatContent", "CholesterolContent",
      "SodiumContent", "CarbohydrateContent", "FiberContent", "SugarContent",
      "ProteinContent", "CalciumContent", "IronContent", "VitaminCContent",
      "FolateContent" }

\* The field of a service result (and of mealData.nutrients) that feeds a summary key
ServiceKey(k) ==
    CASE k = "Calories" -> "calories"
      [] k = "FatContent" -> "fat"
      [] k = "CarbohydrateContent" -> "carbohydrates"
      [] k = "ProteinContent" -> "protein"
      [] k = "SaturatedFatContent" -> "saturatedFat"
      [] k = "CholesterolContent" -> "cholesterol"
      [] k = "SodiumContent" -> "sodium"
      [] k = "FiberContent" -> "fiber"
      [] k = "SugarContent" -> "sugar"
      [] k = "CalciumContent" -> "calcium"
      [] k = "IronContent" -> "iron"
      [] k = "VitaminCContent" -> "vitamin_c"
      [] k = "FolateContent" -> "folate"

ServiceKeys == { ServiceKey(k) : k \in NutrientKeys }

ZeroSummary == [k \in NutrientKeys |-> 0]

\* getNutrientValue: parseFloat(value) || 0, as the amount it yields
getNutrientValue(value) == Or(ParseFloatValue(value), Num(0)).n

\* mealData as handleManualLookup and fetchRecipeDetails build it from a service
\* result: every nutrient is  result.x || 0 ; mealData has no calories of its own
MealDataOf(result) ==
    [ title |-> result.title,
      calories |-> Undef,
      nutrients |-> [f \in ServiceKeys |-> Or(result.nutrients[f], Num(0))] ]

\* One field of mealNutrients of logMealToDailyGoal
mealNutrient(mealData, k) ==
    IF k = "Calories"
    THEN getNutrientValue(Or(mealData.nutrients["calories"], mealData.calories))
    ELSE getNutrientValue(mealData.nutrients[ServiceKey(k)])

\* mealNutrients of logMealToDailyGoal
mealNutrients(mealData) == [k \in NutrientKeys |-> mealNutrient(mealData, k)]

isRecipe(mealData) == mealData.nutrients["calories"].t # "undefined"

\* Number.prototype.toFixed(2) of a whole amount
ToFixed2(n) == ToString(n) \o ".00"

\* The entry logMealToDailyGoal appends; dateKey is the currentDateKey of the
\* render whose closure runs
MealLogEntry(mealData, dateKey) ==
    [ name |-> mealData.title,
      calories |-> ToFixed2(mealNutrient(mealData, "Calories")),
      type |-> IF isRecipe(mealData) THEN "Recipe" ELSE "Manual",
      dateKey |-> dateKey ]

\* Slip: FolateContent is set to the meal's amount instead of added to
AccumulateOverwritesFolate(prevSummary, mealData) ==
    [k \in NutrientKeys |->
        IF k = "FolateContent" THEN mealNutrient(mealData, k)
        ELSE prevSummary[k] + mealNutrient(mealData, k)]

\* The updater of setDailyNutritionSummary in logMealToDailyGoal
Accumulate(prevSummary, mealData) ==
    [k \in NutrientKeys |-> prevSummary[k] + mealNutrient(mealData, k)]

----------------------------------------------------------------------------
(* historicalLog *)

\* The sample archive: 2025-01-01 .. 2025-01-07, Calories only
SampleHistoricalLog ==
    << [date |-> 1, Calories |-> 1900], [date |-> 2, Calories |-> 2450],
       [date |-> 3, Calories |-> 2100], [date |-> 4, Calories |-> 2200],
       [date |-> 5, Calories |-> 2150], [date |-> 6, Calories |-> 2300],
       [date |-> 7, Calories |-> 1800] >>

\* { date: currentDateKey, ...dailyNutritionSummary }
LogEntry(dateKey, summary) ==
    [f \in {"date"} \cup NutrientKeys |-> IF f = "date" THEN dateKey ELSE summary[f]]

\* prevLog.findIndex(d => d.date === dateKey) found something
HasDate(log, dateKey) == \E i \in 1..Len(log) : log[i].date = dateKey

\* Slip: the test of existingIndex is inverted
ArchiveInsertInverted(prevLog, dateKey, summary) ==
    IF HasDate(prevLog, dateKey) THEN Append(prevLog, LogEntry(dateKey, summary))
    ELSE prevLog

\* Slip: no test of existingIndex
ArchiveInsertUnguarded(prevLog, dateKey, summary) ==
    Append(prevLog, LogEntry(dateKey, summary))

\* The updater of setHistoricalLog in the daily effect
ArchiveInsert(prevLog, dateKey, summary) ==
    IF ~HasDate(prevLog, dateKey) THEN Append(prevLog, LogEntry(dateKey, summary))
    ELSE prevLog

\* Slip: the day is archived whatever its Calories
ArchiveAfterRolloverAnyCalories(prevLog, dateKey, summary) ==
    ArchiveInsert(prevLog, dateKey, summary)

\* The archive after the rollover branch of the daily effect
ArchiveAfterRollover(prevLog, dateKey, summary) ==
    IF summary["Calories"] > 0 THEN ArchiveInsert(prevLog, dateKey, summary)
    ELSE prevLog

\* HistoricalLogSchema: what a stored and reloaded archive entry holds. The schema
\* is strict: a field it does not declare is not stored; a declared Number that
\* is absent gets its default 0.
SchemaFields == {"date", "Calories", "FatContent", "CarbohydrateContent", "ProteinContent"}

HistoricalLogSchema(entry) ==
    [f \in SchemaFields |-> IF f \in DOMAIN entry THEN entry[f] ELSE 0]

----------------------------------------------------------------------------
(* weightLog *)

\* Array.prototype.sort((a, b) => new Date(b.date) - new Date(a.date)): stable,
\* descending by date
RECURSIVE InsertByDateDesc(_, _)
InsertByDateDesc(sorted, e) ==
    IF sorted = << >> THEN << e >>
    ELSE IF Head(sorted).date >= e.date
         THEN << Head(sorted) >> \o InsertByDateDesc(Tail(sorted), e)
         ELSE << e >> \o sorted

RECURSIVE SortByDateDesc(_)
SortByDateDesc(log) ==
    IF log = << >> THEN << >>
    ELSE InsertByDateDesc(SortByDateDesc(SubSeq(log, 1, Len(log) - 1)), log[Len(log)])

\* prevLog.findIndex(entry => entry.date === day): 0 stands for -1
FindIndex(log, day) ==
    IF \E i \in 1..Len(log) : log[i].date = day
    THEN CHOOSE i \in 1..Len(log) :
            /\ log[i].date = day
            /\ \A j \in 1..(i - 1) : log[j].date # day
    ELSE 0

\* The updater of setWeightLog in handleWeightSubmit
UpsertWeight(prevLog, day, loggedWeight) ==
    LET existingIndex == FindIndex(prevLog, day)
        newEntry == [date |-> day, weight |-> loggedWeight]
    IN  IF existingIndex > 0
        THEN SortByDateDesc([prevLog EXCEPT ![existingIndex] = newEntry])
        ELSE SortByDateDesc(<< newEntry >> \o prevLog)

\* The sample weight log as the first render builds it
SampleWeightLog(todayKey) ==
    SortByDateDesc(<< [date |-> 1, weight |-> Num(705)], [date |-> 8, weight |-> Num(700)],
                      [date |-> 15, weight |-> Num(698)], [date |-> 22, weight |-> Num(695)],
                      [date |-> todayKey, weight |-> Num(SampleTodayWeight)] >>)

\* What an <input> holds when the form is submitted, and parseFloat of it
WeightInputs == { "", "abc", "0", "-5", "65.5", "72", "Infinity" }

ParseFloat(s) ==
    CASE s = "65.5" -> Num(655)
      [] s = "72" -> Num(720)
      [] s = "0" -> Num(0)
      [] s = "-5" -> Num(-50)
      [] s = "Infinity" -> Inf
      [] OTHER -> NaNv

\* What the sign-up form's weight field holds in the runs of the ledger
LedgerSignUpInputs == { "" }

\* What the profile page's weight field holds after an edit
ProfileWeightInputs == { "", "72" }

\* The emails typed into the login form in the runs of the ledger
LedgerEmails == { "a.b@x.io" }

\* The guard of handleWeightSubmit: the submission is refused
WeightRejected(loggedWeight) == IsNaN(loggedWeight) \/ LeqZero(loggedWeight)

----------------------------------------------------------------------------
(* Service results: what /lookup_nutrition and /get_recipe_details deliver *)

\* calories c, every other nutrient v
UniformResult(c, v) ==
    [ title |-> "meal",
      nutrients |-> [f \in ServiceKeys |-> IF f = "calories" THEN c ELSE v] ]

\* A result whose 13 nutrients all differ
DistinctResult ==
    [ title |-> "meal",
      nutrients |-> [f \in ServiceKeys |->
          Num(CHOOSE i \in 1..13 :
                 f = << "calories", "fat", "saturatedFat", "cholesterol", "sodium",
                        "carbohydrates", "fiber", "sugar", "protein", "calcium", "iron",
                        "vitamin_c", "folate" >>[i])] ]

RawValues == { Undef, NaNv, Junk, Num(0), Num(1), NumStr(2), Num(-3) }

SumResults ==
    { UniformResult(c, v) : c \in { Undef, Num(1) }, v \in RawValues }
        \cup { UniformResult(c, Num(1)) : c \in RawValues }
        \cup { DistinctResult }

\* A result without a name (food_name, title)
Untitled(result) == [result EXCEPT !.title = ""]

LedgerResults ==
    { UniformResult(Num(0), Num(1)), Untitled(UniformResult(Num(2), Undef)), DistinctResult }

\* What the user types into the manual lookup
MealNames == { "oats" }

----------------------------------------------------------------------------
(* History values *)

NoWeight == [t |-> "none", n |-> 0]

Did(op, input) ==
    [ op |-> op, input |-> input, from |-> 0, summary |-> ZeroSummary, rolledBefore |-> 0,
      late |-> FALSE ]

\* A handler that logged a meal; late: the clock showed another day than
\* currentDateKey when it ran
DidLog(op, input) == [Did(op, input) EXCEPT !.late = (today # currentDateKey)]

----------------------------------------------------------------------------
(* Profile: identity and health metrics *)

\* formData.email.replace(/[^a-zA-Z0-9]/g, '')
UserIdOf(email) ==
    CASE email = "paula@zylker.com" -> "paulazylkercom"
      [] email = "a.b@x.io" -> "abxio"
      [] email = "ab@x.io" -> "abxio"

InitialUserProfile == [email |-> "paula@zylker.com", userId |-> "paula@zylker.com"]

\* healthMetrics is null. A computed healthMetrics is held as the weight it was
\* computed from (age, height, gender and activity keep their valid defaults,
\* so the metrics are a function of the weight alone).
NullMetrics == [error |-> FALSE, weight |-> NoWeight]

\* x + d for a number x (d in tenths)
Plus(x, d) == IF x.t = "num" THEN Num(x.n + d) ELSE x

\* prevWeight > 0
GtZero(x) ==
    CASE x.t = "num" -> x.n > 0
      [] x.t = "inf" -> TRUE
      [] OTHER -> FALSE

\* No identity's logged data in any part of the state
Parts == { "summary", "mealLog", "archive", "weightLog" }

NoOwner == [c \in Parts |-> {}]

----------------------------------------------------------------------------
(* Handlers and effects *)

\* mealData as handleManualLookup builds it: title: result.food_name || mealName
ManualMealData(result, mealName) ==
    [ MealDataOf(result) EXCEPT !.title = IF result.title # "" THEN result.title
                                          ELSE mealName ]

\* logMealToDailyGoal(mealData), run by a closure that holds dateKey
logMealToDailyGoal(mealData, dateKey) ==
    /\ dailyMealLog' = Append(dailyMealLog, MealLogEntry(mealData, dateKey))
    /\ dailyNutritionSummary' = Accumulate(dailyNutritionSummary, mealData)
    /\ effectPending' = TRUE
    /\ mealCount' = mealCount + 1
    /\ alerted' = FALSE
    /\ owner' = [owner EXCEPT !.summary = @ \cup {userProfile.email},
                              !.mealLog = @ \cup {userProfile.email}]
    /\ UNCHANGED << today, currentDateKey, historicalLog, weightLog, weight, lastUpsert,
                    weightCount, healthMetrics, userProfile, mealTypePreference,
                    dietPreference >>
    /\ UNCHANGED << pipeVars, storeVars >>

\* handleManualLookup(mealName) up to its await: the request is sent; the
\* continuation keeps the closure of this render, and with it currentDateKey
handleManualLookup(mealName, max) ==
    /\ ~effectPending
    /\ mealCount + Cardinality(lookups) < max
    /\ [mealName |-> mealName, dateKey |-> currentDateKey] \notin lookups
    /\ lookups' = lookups \cup { [mealName |-> mealName, dateKey |-> currentDateKey] }
    /\ UNCHANGED << today, currentDateKey, dailyNutritionSummary, dailyMealLog,
                    historicalLog, weightLog, weight, effectPending, logged, lastUpsert,
                    last, alerted, mealCount, weightCount, healthMetrics, userProfile,
                    owner, mealTypePreference, dietPreference >>
    /\ UNCHANGED << pipeVars, storeVars >>

\* handleManualLookup after its await, /lookup_nutrition having answered with result
handleManualLookupAnswered(lookup, result) ==
    /\ ~effectPending
    /\ lookup \in lookups
    /\ lookups' = lookups \ {lookup}
    /\ logMealToDailyGoal(ManualMealData(result, lookup.mealName), lookup.dateKey)
    /\ logged' = Append(logged, result)
    /\ last' = DidLog("handleManualLookup", lookup.mealName)

\* handleManualLookup after its await, the answer being an error or the fetch
\* having failed: the catch block logs nothing
handleManualLookupFailed(lookup) ==
    /\ ~effectPending
    /\ lookup \in lookups
    /\ lookups' = lookups \ {lookup}
    /\ UNCHANGED << today, currentDateKey, dailyNutritionSummary, dailyMealLog,
                    historicalLog, weightLog, weight, effectPending, logged, lastUpsert,
                    last, alerted, mealCount, weightCount, healthMetrics, userProfile,
                    owner, mealTypePreference, dietPreference >>
    /\ UNCHANGED << pipeVars, storeVars >>

\* handleLogSuggestedMeal, todayMeal being the recipe fetchRecipeDetails built
\* from result
handleLogSuggestedMeal(result, max) ==
    /\ ~effectPending
    /\ mealCount + Cardinality(lookups) < max
    /\ logMealToDailyGoal(MealDataOf(result), currentDateKey)
    /\ logged' = Append(logged, result)
    /\ last' = DidLog("handleLogSuggestedMeal", "-")
    /\ UNCHANGED lookups

\* The owners of the archive after the rollover branch
OwnerAfterRollover ==
    [owner EXCEPT !.archive =
                      IF /\ dailyNutritionSummary["Calories"] > 0
                         /\ ~HasDate(historicalLog, currentDateKey)
                      THEN @ \cup owner.summary ELSE @,
                  !.summary = {},
                  !.mealLog = {}]

\* Slip: the rollover does not clear the meal log
DailyEffectKeepsMealLog ==
    /\ effectPending
    /\ LET todayKey == today
       IN  IF currentDateKey # todayKey
           THEN /\ historicalLog' = ArchiveAfterRollover(historicalLog, currentDateKey,
                                                         dailyNutritionSummary)
                /\ dailyNutritionSummary' = ZeroSummary
                /\ dailyMealLog' = dailyMealLog
                /\ currentDateKey' = todayKey
                /\ logged' = << >>
                /\ owner' = OwnerAfterRollover
                /\ effectPending' = TRUE
           ELSE /\ UNCHANGED << historicalLog, dailyNutritionSummary, dailyMealLog,
                                currentDateKey, logged, owner >>
                /\ effectPending' = FALSE
    /\ weight' = IF Len(weightLog) > 0 /\ weight # weightLog[1].weight
                 THEN weightLog[1].weight ELSE weight
    /\ last' = [op |-> "effect", input |-> "-", late |-> FALSE, from |-> currentDateKey,
                summary |-> dailyNutritionSummary,
                rolledBefore |-> IF /\ last.op = "effect"
                                    /\ last.from # currentDateKey
                                    /\ last.summary["Calories"] > 0
                                 THEN last.from ELSE 0]
    /\ alerted' = FALSE
    /\ UNCHANGED << today, weightLog, lastUpsert, mealCount, weightCount, healthMetrics,
                    userProfile, lookups, mealTypePreference, dietPreference >>
    /\ UNCHANGED << pipeVars, storeVars >>

\* Slip: the effect resets the day whatever the clock shows
DailyEffectAlwaysResets ==
    /\ effectPending
    /\ LET todayKey == today
       IN  /\ historicalLog' = ArchiveAfterRollover(historicalLog, currentDateKey,
                                                    dailyNutritionSummary)
           /\ dailyNutritionSummary' = ZeroSummary
           /\ dailyMealLog' = << >>
           /\ currentDateKey' = todayKey
           /\ logged' = << >>
           /\ owner' = OwnerAfterRollover
           /\ effectPending' = (dailyNutritionSummary # ZeroSummary \/ currentDateKey # todayKey)
    /\ weight' = IF Len(weightLog) > 0 /\ weight # weightLog[1].weight
                 THEN weightLog[1].weight ELSE weight
    /\ last' = [op |-> "effect", input |-> "-", late |-> FALSE, from |-> currentDateKey,
                summary |-> dailyNutritionSummary, rolledBefore |-> 0]
    /\ alerted' = FALSE
    /\ UNCHANGED << today, weightLog, lastUpsert, mealCount, weightCount, healthMetrics,
                    userProfile, lookups, mealTypePreference, dietPreference >>
    /\ UNCHANGED << pipeVars, storeVars >>

\* The daily effect: rollover check, then the weight sync
DailyEffect ==
    /\ effectPending
    /\ LET todayKey == today
       IN  IF currentDateKey # todayKey
           THEN /\ historicalLog' = ArchiveAfterRollover(historicalLog, currentDateKey,
                                                         dailyNutritionSummary)
                /\ dailyNutritionSummary' = ZeroSummary
                /\ dailyMealLog' = << >>
                /\ currentDateKey' = todayKey
                /\ logged' = << >>
                /\ owner' = OwnerAfterRollover
                /\ effectPending' = TRUE
           ELSE /\ UNCHANGED << historicalLog, dailyNutritionSummary, dailyMealLog,
                                currentDateKey, logged, owner >>
                /\ effectPending' = FALSE
    /\ weight' = IF Len(weightLog) > 0 /\ weight # weightLog[1].weight
                 THEN weightLog[1].weight ELSE weight
    /\ last' = [op |-> "effect", input |-> "-", late |-> FALSE, from |-> currentDateKey,
                summary |-> dailyNutritionSummary,
                rolledBefore |-> IF /\ last.op = "effect"
                                    /\ last.from # currentDateKey
                                    /\ last.summary["Calories"] > 0
                                 THEN last.from ELSE 0]
    /\ alerted' = FALSE
    /\ UNCHANGED << today, weightLog, lastUpsert, mealCount, weightCount, healthMetrics,
                    userProfile, lookups, mealTypePreference, dietPreference >>
    /\ UNCHANGED << pipeVars, storeVars >>

\* Slip: logout also drops the archive
handleLogoutDropsArchive ==
    /\ ~effectPending
    /\ dailyNutritionSummary' = ZeroSummary
    /\ dailyMealLog' = << >>
    /\ historicalLog' = << >>
    /\ healthMetrics' = NullMetrics
    /\ logged' = << >>
    /\ owner' = [owner EXCEPT !.summary = {}, !.mealLog = {}, !.archive = {}]
    /\ effectPending' = TRUE
    /\ last' = [ Did("handleLogout", "-") EXCEPT !.from = currentDateKey,
                                               !.summary = dailyNutritionSummary ]
    /\ alerted' = FALSE
    /\ UNCHANGED << today, currentDateKey, weightLog, weight, lastUpsert,
                    mealCount, weightCount, userProfile, lookups, mealTypePreference,
                    dietPreference >>
    /\ UNCHANGED << pipeVars, storeVars >>

\* handleLogout
handleLogout ==
    /\ ~effectPending
    /\ dailyNutritionSummary' = ZeroSummary
    /\ dailyMealLog' = << >>
    /\ healthMetrics' = NullMetrics
    /\ logged' = << >>
    /\ owner' = [owner EXCEPT !.summary = {}, !.mealLog = {}]
    /\ effectPending' = TRUE
    /\ last' = [ Did("handleLogout", "-") EXCEPT !.from = currentDateKey,
                                               !.summary = dailyNutritionSummary ]
    /\ alerted' = FALSE
    /\ UNCHANGED << today, currentDateKey, historicalLog, weightLog, weight, lastUpsert,
                    mealCount, weightCount, userProfile, lookups, mealTypePreference,
                    dietPreference >>
    /\ UNCHANGED << pipeVars, storeVars >>

\* Slip: the sign-up keeps the archive
handleSignUpKeepsArchive(input, email, mealType, restrictions) ==
    /\ ~effectPending
    /\ LET initialWeight == Or(ParseFloat(input), Num(DefaultWeight))
           todayKey == today
       IN  /\ weight' = initialWeight
           /\ weightLog' = << [date |-> todayKey, weight |-> initialWeight] >>
           /\ lastUpsert' = [d \in Days |-> IF d = todayKey THEN initialWeight ELSE NoWeight]
    /\ dietPreference' = restrictions
    /\ mealTypePreference' = mealType
    /\ userProfile' = [email |-> email, userId |-> UserIdOf(email)]
    /\ owner' = [owner EXCEPT !.weightLog = {email}]
    /\ effectPending' = TRUE
    /\ last' = Did("handleSignUp", input)
    /\ alerted' = FALSE
    /\ UNCHANGED << today, currentDateKey, dailyNutritionSummary, dailyMealLog, logged,
                    mealCount, weightCount, healthMetrics, lookups, historicalLog >>
    /\ UNCHANGED << pipeVars, storeVars >>

\* handleSimulatedAuth, sign-up branch, with the form's weight, email, meal type
\* and restrictions
handleSignUp(input, email, mealType, restrictions) ==
    /\ ~effectPending
    /\ LET initialWeight == Or(ParseFloat(input), Num(DefaultWeight))
           todayKey == today
       IN  /\ weight' = initialWeight
           /\ historicalLog' = << >>
           /\ weightLog' = << [date |-> todayKey, weight |-> initialWeight] >>
           /\ lastUpsert' = [d \in Days |-> IF d = todayKey THEN initialWeight ELSE NoWeight]
    /\ dietPreference' = restrictions
    /\ mealTypePreference' = mealType
    /\ userProfile' = [email |-> email, userId |-> UserIdOf(email)]
    /\ owner' = [owner EXCEPT !.archive = {}, !.weightLog = {email}]
    /\ effectPending' = TRUE
    /\ last' = Did("handleSignUp", input)
    /\ alerted' = FALSE
    /\ UNCHANGED << today, currentDateKey, dailyNutritionSummary, dailyMealLog, logged,
                    mealCount, weightCount, healthMetrics, lookups >>
    /\ UNCHANGED << pipeVars, storeVars >>

\* handleSimulatedAuth, login branch
handleLogin(email) ==
    /\ ~effectPending
    /\ userProfile' = [email |-> email, userId |-> UserIdOf(email)]
    /\ last' = Did("handleLogin", email)
    /\ alerted' = FALSE
    /\ UNCHANGED << today, currentDateKey, dailyNutritionSummary, dailyMealLog,
                    historicalLog, weightLog, weight, effectPending, logged, lastUpsert,
                    mealCount, weightCount, healthMetrics, lookups, owner,
                    mealTypePreference, dietPreference >>
    /\ UNCHANGED << pipeVars, storeVars >>

\* handleWeightSubmit, newWeight being input
handleWeightSubmit(input) ==
    /\ ~effectPending
    /\ weightCount < MaxWeights
    /\ weightCount' = weightCount + 1
    /\ last' = Did("handleWeightSubmit", input)
    /\ LET loggedWeight == ParseFloat(input)
           todayKey == today
       IN  IF WeightRejected(loggedWeight)
           THEN /\ alerted' = TRUE
                /\ UNCHANGED << weightLog, weight, lastUpsert, effectPending, owner >>
           ELSE /\ alerted' = FALSE
                /\ weightLog' = UpsertWeight(weightLog, todayKey, loggedWeight)
                /\ weight' = loggedWeight
                /\ lastUpsert' = [lastUpsert EXCEPT ![todayKey] = loggedWeight]
                /\ owner' = [owner EXCEPT !.weightLog = @ \cup {userProfile.email}]
                /\ effectPending' = TRUE
    /\ UNCHANGED << today, currentDateKey, dailyNutritionSummary, dailyMealLog,
                    historicalLog, logged, mealCount, healthMetrics, userProfile, lookups,
                    mealTypePreference, dietPreference >>
    /\ UNCHANGED << pipeVars, storeVars >>

\* What a profile edit leaves alone: everything but the tracked weight
ProfileEdit(op, input) ==
    /\ ~effectPending
    /\ weightCount < MaxWeights
    /\ weightCount' = weightCount + 1
    /\ last' = Did(op, input)
    /\ alerted' = FALSE
    /\ UNCHANGED << today, currentDateKey, dailyNutritionSummary, dailyMealLog,
                    historicalLog, weightLog, effectPending, logged, lastUpsert,
                    mealCount, healthMetrics, userProfile, lookups, owner,
                    mealTypePreference, dietPreference >>
    /\ UNCHANGED << pipeVars, storeVars >>

\* The profile page's weight input: setWeight(parseFloat(e.target.value) || 0)
handleProfileWeightChange(input) ==
    /\ ProfileEdit("handleProfileWeightChange", input)
    /\ weight' = Or(ParseFloat(input), Num(0))

\* The profile page's - button
handleProfileWeightMinus ==
    /\ ProfileEdit("handleProfileWeightMinus", "-")
    /\ weight' = IF GtZero(weight) THEN Plus(weight, -10) ELSE Num(0)

\* The profile page's + button
handleProfileWeightPlus ==
    /\ ProfileEdit("handleProfileWeightPlus", "-")
    /\ weight' = Plus(weight, 10)

\* calculateHealthMetrics (age and height hold valid numbers)
calculateHealthMetrics ==
    /\ ~effectPending
    /\ healthMetrics' = IF IsNaN(weight) \/ LeqZero(weight)
                        THEN [error |-> TRUE, weight |-> NoWeight]
                        ELSE [error |-> FALSE, weight |-> weight]
    /\ last' = Did("calculateHealthMetrics", "-")
    /\ alerted' = FALSE
    /\ UNCHANGED << today, currentDateKey, dailyNutritionSummary, dailyMealLog,
                    historicalLog, weightLog, weight, effectPending, logged, lastUpsert,
                    mealCount, weightCount, userProfile, lookups, owner,
                    mealTypePreference, dietPreference >>
    /\ UNCHANGED << pipeVars, storeVars >>

\* The wall clock shows another day (midnight passes, or the clock is set)
ClockChange ==
    /\ \E d \in Days \ {today} : today' = d
    /\ UNCHANGED << currentDateKey, dailyNutritionSummary, dailyMealLog, historicalLog,
                    weightLog, weight, effectPending, logged, lastUpsert, last, alerted,
                    mealCount, weightCount, healthMetrics, userProfile, lookups, owner,
                    mealTypePreference, dietPreference >>
    /\ UNCHANGED << pipeVars, storeVars >>

----------------------------------------------------------------------------
(* Strings: a text is the sequence of its characters *)

WhiteSpace == { " ", "\t", "\r", "\n" }

\* String.prototype.trim
RECURSIVE TrimStart(_)
TrimStart(s) == IF s # << >> /\ Head(s) \in WhiteSpace THEN TrimStart(Tail(s)) ELSE s

RECURSIVE TrimEnd(_)
TrimEnd(s) ==
    IF s # << >> /\ s[Len(s)] \in WhiteSpace THEN TrimEnd(SubSeq(s, 1, Len(s) - 1)) ELSE s

Trim(s) == TrimEnd(TrimStart(s))

\* s.split(c) for a character c
RECURSIVE Split(_, _)
Split(s, c) ==
    IF \A i \in 1..Len(s) : s[i] # c THEN << s >>
    ELSE LET i == CHOOSE i \in 1..Len(s) : s[i] = c /\ \A j \in 1..(i - 1) : s[j] # c
         IN  << SubSeq(s, 1, i - 1) >> \o Split(SubSeq(s, i + 1, Len(s)), c)

\* s.includes(pat)
Includes(s, pat) ==
    \E i \in 1..(Len(s) - Len(pat) + 1) : SubSeq(s, i, i + Len(pat) - 1) = pat

\* list.join(sep)
RECURSIVE Join(_, _)
Join(list, sep) ==
    IF list = << >> THEN << >>
    ELSE IF Len(list) = 1 THEN list[1]
         ELSE list[1] \o sep \o Join(Tail(list), sep)

\* list.map(s => s.trim())
MapTrim(list) == [i \in 1..Len(list) |-> Trim(list[i])]

\* list.slice(0, n)
Slice(list, n) == SubSeq(list, 1, IF Len(list) < n THEN Len(list) ELSE n)

Comma == << "," >>

----------------------------------------------------------------------------
(* /api/process-ingredients: the clean-up of the parsed text *)

TotalWord == << "T", "o", "t", "a", "l" >>
DollarSign == << "$" >>
SubtotalWord == << "S", "u", "b", "t", "o", "t", "a", "l" >>

MaxIngredients == 10
ResultCount == 6
MaximizeUsed == 2

\* line.length > 3 && !line.includes('Total') && !line.includes('$') &&
\* !line.includes('Subtotal')
KeepLine(line) ==
    /\ Len(line) > 3
    /\ ~Includes(line, TotalWord)
    /\ ~Includes(line, DollarSign)
    /\ ~Includes(line, SubtotalWord)

\* Slip: slice(1, 10) for slice(0, 10)
ingredientListSkipsFirst(parsedText) ==
    LET kept == SelectSeq(MapTrim(Split(parsedText, "\n")), KeepLine)
    IN  IF kept = << >> THEN << >> ELSE Slice(Tail(kept), MaxIngredients - 1)

\* Slip: the list is not cut to its first 10 entries
ingredientListUncut(parsedText) ==
    SelectSeq(MapTrim(Split(parsedText, "\n")), KeepLine)

\* parsedText.split('\n').map(trim).filter(...).slice(0, 10)
ingredientList(parsedText) ==
    Slice(SelectSeq(MapTrim(Split(parsedText, "\n")), KeepLine), MaxIngredients)

----------------------------------------------------------------------------
(* processImage: the restrictions *)

MealTypes == { "Non-Vegetarian", "Vegetarian", "Eggetarian", "Vegan" }

\* The values of restrictionOptions
Sugar == << "s", "u", "g", "a", "r" >>
Fried == << "f", "r", "i", "e", "d" >>
Fish == << "f", "i", "s", "h" >>
Pork == << "p", "o", "r", "k" >>
Beef == << "b", "e", "e", "f" >>

RestrictionValues == { Sugar, Fried, Fish, Pork, Beef }

meatExclusions ==
    << "p", "o", "r", "k", ",", " ", "b", "e", "e", "f", ",", " ", "c", "h", "i", "c",
       "k", "e", "n", ",", " ", "l", "a", "m", "b", ",", " ", "t", "u", "r", "k", "e",
       "y", ",", " ", "f", "i", "s", "h", ",", " ", "s", "h", "e", "l", "l", "f", "i",
       "s", "h" >>

\* Slip: Eggetarian maps to the vegetarian filter
spoonacularDietEggAsVegetarian(mealType) ==
    CASE mealType \in { "Vegetarian", "Eggetarian" } -> "vegetarian"
      [] mealType = "Vegan" -> "vegan"
      [] OTHER -> ""

\* spoonacularDiet
spoonacularDiet(mealType) ==
    CASE mealType = "Vegetarian" -> "vegetarian"
      [] mealType = "Vegan" -> "vegan"
      [] OTHER -> ""

\* excludedItems ? excludedItems + ', ' + meatExclusions : meatExclusions
WithMeatExclusions(items) ==
    IF items # << >> THEN items \o << ",", " " >> \o meatExclusions ELSE meatExclusions

\* excludedItems.split(',').map(s => s.trim()).filter(s => s).join(',')
NonEmpty(s) == s # << >>

\* Slip: the empty tokens are kept
CleanCommasKeepsEmpty(items) == Join(MapTrim(Split(items, ",")), Comma)

CleanCommas(items) == Join(SelectSeq(MapTrim(Split(items, ",")), NonEmpty), Comma)

\* Slip: the Eggetarian branch is missing
excludedItemsNoEggetarian(mealType, restrictions) ==
    CleanCommas(IF mealType \in { "Vegetarian", "Vegan" }
                THEN WithMeatExclusions(Join(restrictions, Comma))
                ELSE Join(restrictions, Comma))

\* excludedItems, from dietPreference.join(',') to the cleaned string
excludedItems(mealType, restrictions) ==
    CleanCommas(IF mealType = "Vegetarian" \/ mealType = "Vegan"
                THEN WithMeatExclusions(Join(restrictions, Comma))
                ELSE IF mealType = "Eggetarian"
                     THEN WithMeatExclusions(Join(restrictions, Comma))
                     ELSE Join(restrictions, Comma))

\* restrictionsPayload
restrictionsPayload(mealType, restrictions) ==
    [ excludeIngredients |-> excludedItems(mealType, restrictions),
      diet |-> spoonacularDiet(mealType) ]

----------------------------------------------------------------------------
(* Inputs of the pipeline *)

MaxTextLines == 2
MaxTags == 2
MaxRuns == 1
MaxConcurrentRuns == 2

\* Lines of receipts and of typed lists
SampleLines ==
    { << "M", "i", "l", "k" >>,
      << "E", "g", "g", "s", "\r" >>,
      << " ", " ", "R", "i", "c", "e", " " >>,
      << "B", "r" >>,
      << "a", "b", "c" >>,
      << "T", "o", "t", "a", "l", ":", " ", "$", "5" >>,
      << "S", "u", "b", "t", "o", "t", "a", "l" >>,
      << "t", "o", "t", "a", "l" >>,
      << "a", "$", "c", "d" >>,
      << >>,
      << " ", "\t", " " >>,
      << "T", "o", "t", "a", "l", "l", "y" >> }

\* The k-th line of a long list: 'item' and a letter
Item(k) == << "i", "t", "e", "m", << "a", "b", "c", "d", "e", "f", "g", "h", "i", "j", "k", "l" >>[k] >>

\* The texts of up to MaxTextLines sample lines
ShortTexts ==
    UNION { { Join(ls, << "\n" >>) : ls \in [1..n -> SampleLines] } : n \in 1..MaxTextLines }

\* Lists of 10 to 12 lines, all items but at most one
LongTexts ==
    { Join([j \in 1..n |-> IF j = k THEN odd ELSE Item(j)], << "\n" >>) :
          n \in 10..12, k \in 0..12, odd \in { << "B", "r" >>, << "T", "o", "t", "a", "l", ":", " ", "$", "5" >> } }

Texts == { << >> } \cup ShortTexts \cup LongTexts

\* What the textarea of the home page holds
ClientTexts == { << >>, << " ", " " >>, << "B", "r" >>, << "M", "i", "l", "k", "\n", "E", "g", "g", "s" >>, << "T", "o", "t", "a", "l", ":", " ", "$", "5" >> }

\* What /ocr reads from an image
OcrTexts == { << >>, << "M", "i", "l", "k" >> }

\* dietPreference: the checked restrictions, in the order of checking
TagLists ==
    UNION { { l \in [1..n -> RestrictionValues] : \A i, j \in 1..n : l[i] = l[j] => i = j } :
            n \in 0..MaxTags }

\* Tags no checkbox of the sign-up form yields: empty, with white space around,
\* with commas inside
OddTags ==
    { << >>,
      << " ", "n", "u", "t", "s", "\t" >>,
      << "s", "o", "y", ",", ",", " ", "o", "a", "t" >> }

\* profileData.restrictions as any caller of handleSimulatedAuth may pass it
ProfileTagLists ==
    UNION { [1..n -> OddTags] : n \in 0..MaxTags }

----------------------------------------------------------------------------
(* /api/process-ingredients.  The handler keeps no state between requests, so a
   behaviour follows one request. *)

Respond(code, error) ==
    responses' = Append(responses, [status |-> code, error |-> error])

\* An await of axios: the call goes out
Call(service) ==
    externalCalls' = Append(externalCalls, [service |-> service, outcome |-> "pending"])

\* The await settles: the promise of the last call is fulfilled or rejected
Settle(outcome) ==
    externalCalls' = [externalCalls EXCEPT ![Len(externalCalls)].outcome = outcome]

\* The handler from the test of parsedText to the request to findByIngredients
CleanUpAndSearch(parsedText) ==
    IF parsedText = << >>
    THEN /\ Respond(400, "No ingredients extracted or manually provided.")
         /\ serverRuns' = {}
         /\ UNCHANGED << spoonacularSent, lastExtract >>
    ELSE /\ lastExtract' = [ parsedText |-> parsedText,
                             ingredientList |-> ingredientList(parsedText) ]
         /\ IF Len(ingredientList(parsedText)) = 0
            THEN /\ Respond(400, "Could not identify usable ingredients from the text provided.")
                 /\ serverRuns' = {}
                 /\ UNCHANGED spoonacularSent
            ELSE /\ spoonacularSent' =
                        Append(spoonacularSent,
                               [ ingredients |-> Join(ingredientList(parsedText), Comma),
                                 number |-> ResultCount,
                                 ranking |-> MaximizeUsed ])
                 /\ serverRuns' = { [stage |-> "search"] }
                 /\ UNCHANGED responses

\* The handler up to its first await or its response; hasFile: an image came
\* with the request
processIngredients(text, hasFile) ==
    /\ pipeCount = 0
    /\ pipeCount' = pipeCount + 1
    /\ LET isManualText == text # << >> /\ Len(Trim(text)) > 0
       IN  IF hasFile /\ ~isManualText
           THEN /\ serverRuns' = { [stage |-> "ocr"] }
                /\ Call("ocr")
                /\ UNCHANGED << spoonacularSent, responses, lastExtract >>
           ELSE /\ CleanUpAndSearch(text)
                /\ IF serverRuns' # {} THEN Call("search") ELSE UNCHANGED externalCalls
    /\ UNCHANGED << image, ingredientText, errorMessage, status, recipes, runs,
                    getRecipesSent >>
    /\ UNCHANGED << ledgerVars, storeVars >>

\* The handler after the OCR service answered with parsed text
processIngredientsOcrAnswered(parsedText) ==
    /\ [stage |-> "ocr"] \in serverRuns
    /\ CleanUpAndSearch(parsedText)
    /\ externalCalls' =
           [externalCalls EXCEPT ![Len(externalCalls)].outcome = "fulfilled"]
               \o (IF serverRuns' # {}
                   THEN << [service |-> "search", outcome |-> "pending"] >> ELSE << >>)
    /\ UNCHANGED << image, ingredientText, errorMessage, status, recipes, runs,
                    getRecipesSent, pipeCount >>
    /\ UNCHANGED << ledgerVars, storeVars >>

\* Slip: the catch block sends the recipe request instead of answering
processIngredientsFailedRetries ==
    /\ serverRuns # {}
    /\ serverRuns' = { [stage |-> "search"] }
    /\ externalCalls' =
           [externalCalls EXCEPT ![Len(externalCalls)].outcome = "failed"]
               \o << [service |-> "search", outcome |-> "pending"] >>
    /\ UNCHANGED << image, ingredientText, errorMessage, status, recipes, runs,
                    getRecipesSent,
                    spoonacularSent, responses, lastExtract, pipeCount >>
    /\ UNCHANGED << ledgerVars, storeVars >>

\* The handler after a service call failed (IsErroredOnProcessing, or axios
\* rejected): the catch block
processIngredientsFailed ==
    /\ serverRuns # {}
    /\ serverRuns' = {}
    /\ Settle("failed")
    /\ Respond(500, "Failed to process request. Check API keys/Server logs.")
    /\ UNCHANGED << image, ingredientText, errorMessage, status, recipes, runs,
                    getRecipesSent,
                    spoonacularSent, lastExtract, pipeCount >>
    /\ UNCHANGED << ledgerVars, storeVars >>

\* The handler after findByIngredients answered
processIngredientsSearchAnswered ==
    /\ [stage |-> "search"] \in serverRuns
    /\ serverRuns' = {}
    /\ Settle("fulfilled")
    /\ Respond(200, "")
    /\ UNCHANGED << image, ingredientText, errorMessage, status, recipes, runs,
                    getRecipesSent,
                    spoonacularSent, lastExtract, pipeCount >>
    /\ UNCHANGED << ledgerVars, storeVars >>

----------------------------------------------------------------------------
(* processImage *)

\* The texts of setStatus
StatusIdle ==
    << "I", "d", "l", "e" >>

StatusOcr ==
    << "U", "p", "l", "o", "a", "d", "i", "n", "g", " ", "i", "m", "a", "g",
       "e", " ", "a", "n", "d", " ", "r", "u", "n", "n", "i", "n", "g", " ",
       "O", "C", "R", ".", ".", "." >>

StatusSearching ==
    << "S", "e", "a", "r", "c", "h", "i", "n", "g", " ", "f", "o", "r", " ",
       "f", "i", "l", "t", "e", "r", "e", "d", " ", "r", "e", "c", "i", "p",
       "e", "s", ".", ".", "." >>

StatusApiError ==
    << "A", "n", " ", "A", "P", "I", " ", "e", "r", "r", "o", "r", " ", "o",
       "c", "c", "u", "r", "r", "e", "d", "." >>

StatusWarning ==
    << "W", "a", "r", "n", "i", "n", "g", ":", " ", "w" >>

StatusComplete ==
    << "C", "o", "m", "p", "l", "e", "t", "e", "!", " ", "R", "e", "c", "i",
       "p", "e", "s", " ", "f", "o", "u", "n", "d", "." >>

StatusInternalError ==
    << "A", "n", " ", "i", "n", "t", "e", "r", "n", "a", "l", " ", "e", "r",
       "r", "o", "r", " ", "o", "c", "c", "u", "r", "r", "e", "d", "." >>

\* The texts the Find Recipes button looks for in the status
ProcessingWord ==
    << "P", "r", "o", "c", "e", "s", "s", "i", "n", "g", ".", ".", "." >>

ErrorWord ==
    << "E", "r", "r", "o", "r", "." >>

\* setRecipes([])
NoRecipes == [from |-> 0]

\* The body posted to /get_recipes
RecipesBody(currentIngredients, mealType, restrictions) ==
    [ ingredients |-> currentIngredients,
      restrictions |-> restrictionsPayload(mealType, restrictions) ]

ClientRun(stage) ==
    [ id |-> pipeCount + 1, stage |-> stage, mealType |-> mealTypePreference,
      restrictions |-> dietPreference ]

\* The disabled attribute of the Find Recipes button
FindRecipesDisabled ==
    \/ ~image /\ Trim(ingredientText) = << >>
    \/ Includes(status, ProcessingWord)
    \/ Includes(status, ErrorWord)

\* processImage up to its first await or its return, on a click of the Find
\* Recipes button; the setters of this stretch are committed together, so of
\* its setStatus calls the last one shows
processImage(max) ==
    /\ ~effectPending
    /\ ~FindRecipesDisabled
    /\ pipeCount < max
    /\ pipeCount' = pipeCount + 1
    /\ recipes' = NoRecipes
    /\ IF image
       THEN /\ runs' = runs \cup { ClientRun("ocr") }
            /\ errorMessage' = ""
            /\ status' = StatusOcr
            /\ UNCHANGED getRecipesSent
       ELSE IF Trim(ingredientText) = << >>
            THEN /\ errorMessage' = "Please select an image OR enter ingredients manually."
                 /\ status' = StatusIdle
                 /\ UNCHANGED << runs, getRecipesSent >>
            ELSE /\ errorMessage' = ""
                 /\ status' = StatusSearching
                 /\ getRecipesSent' =
                        Append(getRecipesSent,
                               RecipesBody(ingredientText, mealTypePreference, dietPreference))
                 /\ runs' = runs \cup { ClientRun("search") }
    /\ UNCHANGED << image, ingredientText, serverRuns, externalCalls, spoonacularSent,
                    responses, lastExtract >>
    /\ UNCHANGED << ledgerVars, storeVars >>

\* processImage after /ocr answered with text: the restrictions are those of the
\* closure the run started in
processImageOcrAnswered(run, text) ==
    /\ ~effectPending
    /\ run \in runs
    /\ run.stage = "ocr"
    /\ ingredientText' = text
    /\ status' = StatusSearching
    /\ getRecipesSent' =
           Append(getRecipesSent, RecipesBody(text, run.mealType, run.restrictions))
    /\ runs' = (runs \ {run}) \cup { [run EXCEPT !.stage = "search"] }
    /\ UNCHANGED << image, errorMessage, recipes, serverRuns, externalCalls,
                    spoonacularSent, responses, lastExtract, pipeCount >>
    /\ UNCHANGED << ledgerVars, storeVars >>

\* processImage after /ocr answered with an error or a fetch failed: the catch block
processImageFailed(run) ==
    /\ ~effectPending
    /\ run \in runs
    /\ runs' = runs \ {run}
    /\ errorMessage' = "Connection Error"
    /\ status' = StatusInternalError
    /\ recipes' = NoRecipes
    /\ UNCHANGED << image, ingredientText, getRecipesSent, serverRuns, externalCalls,
                    spoonacularSent, responses, lastExtract, pipeCount >>
    /\ UNCHANGED << ledgerVars, storeVars >>

\* processImage after /get_recipes answered with recipes, a warning or an error
processImageSearchAnswered(run, answer) ==
    /\ ~effectPending
    /\ run \in runs
    /\ run.stage = "search"
    /\ runs' = runs \ {run}
    /\ errorMessage' = CASE answer = "error" -> "error of /get_recipes"
                         [] answer = "warning" -> "Warning"
                         [] OTHER -> errorMessage
    /\ status' = CASE answer = "error" -> StatusApiError
                   [] answer = "warning" -> StatusWarning
                   [] OTHER -> StatusComplete
    /\ recipes' = IF answer = "error" THEN recipes ELSE [from |-> run.id]
    /\ UNCHANGED << image, ingredientText, getRecipesSent, serverRuns, externalCalls,
                    spoonacularSent, responses, lastExtract, pipeCount >>
    /\ UNCHANGED << ledgerVars, storeVars >>

----------------------------------------------------------------------------
(* /api/signup *)

ServerDefaultWeight == 700

\* The emails and the weights of the sign-up requests and forms
SignUpEmails == { "a.b@x.io", "ab@x.io" }

SignUpWeights == { "abc", "0", "72" }

\* new User({...}) as /api/signup fills it (the fields of the logs and the weight)
NewUser(email, initialWeight, todayKey) ==
    [ email |-> email,
      weight |-> initialWeight,
      historicalLog |-> << >>,
      weightLog |-> << [date |-> todayKey, weight |-> initialWeight] >> ]

\* The handler of /api/signup, data.email and data.weight being email and
\* input; saved: newUser.save() succeeded.  The unique index on email makes the
\* test for an existing user and the save one step.
signup(email, input, saved) ==
    /\ lastSignup' =
           [ email |-> email, weight |-> input,
             status |-> IF \E u \in users : u.email = email THEN 400
                        ELSE IF saved THEN 201 ELSE 500 ]
    /\ users' = IF (\E u \in users : u.email = email) \/ ~saved THEN users
                ELSE users \cup { NewUser(email, Or(ParseFloat(input), Num(ServerDefaultWeight)), today) }
    /\ UNCHANGED << ledgerVars, pipeVars >>

----------------------------------------------------------------------------
(* The first render of App *)

InitLedger ==
    /\ today \in Days
    /\ currentDateKey = today
    /\ dailyNutritionSummary = ZeroSummary
    /\ dailyMealLog = << >>
    /\ historicalLog = SampleHistoricalLog
    /\ weightLog = SampleWeightLog(today)
    /\ weight = Num(StateDefaultWeight)
    /\ healthMetrics = NullMetrics
    /\ userProfile = InitialUserProfile
    /\ lookups = {}
    /\ effectPending = TRUE
    /\ logged = << >>
    /\ lastUpsert = [d \in Days |-> NoWeight]
    /\ last = Did("mount", "-")
    /\ alerted = FALSE
    /\ owner = NoOwner
    /\ mealCount = 0
    /\ weightCount = 0

InitRequests ==
    /\ errorMessage = ""
    /\ status = StatusIdle
    /\ recipes = NoRecipes
    /\ runs = {}
    /\ getRecipesSent = << >>
    /\ serverRuns = {}
    /\ externalCalls = << >>
    /\ spoonacularSent = << >>
    /\ responses = << >>
    /\ lastExtract = [parsedText |-> << >>, ingredientList |-> << >>]
    /\ pipeCount = 0
    /\ users = {}
    /\ lastSignup = [email |-> "", weight |-> "", status |-> 0]

Init ==
    /\ InitLedger
    /\ mealTypePreference = "Non-Vegetarian"
    /\ dietPreference = << >>
    /\ image = FALSE
    /\ ingredientText = << >>
    /\ InitRequests

\* The home page after a sign-up has set the dietary profile and the user has
\* selected an image or typed a text
InitClient ==
    /\ InitLedger
    /\ mealTypePreference \in MealTypes
    /\ dietPreference \in TagLists
    /\ image \in BOOLEAN
    /\ ingredientText \in IF image THEN { << >> } ELSE ClientTexts
    /\ InitRequests

\* The home page after a sign-up with any list of restrictions
InitProfile ==
    /\ InitLedger
    /\ mealTypePreference \in MealTypes
    /\ dietPreference \in ProfileTagLists
    /\ image \in BOOLEAN
    /\ ingredientText \in IF image THEN { << >> } ELSE { << "M", "i", "l", "k" >> }
    /\ InitRequests

\* The home page of the first profile after the user has selected an image or
\* typed a list
InitRuns ==
    /\ InitLedger
    /\ mealTypePreference = "Non-Vegetarian"
    /\ dietPreference = << >>
    /\ image \in BOOLEAN
    /\ ingredientText \in IF image THEN { << >> } ELSE { << "M", "i", "l", "k" >> }
    /\ InitRequests

\* The ledger: meals, rollover, logout, sign-up, login
NextLedger ==
    \/ \E mealName \in MealNames : handleManualLookup(mealName, MaxMeals)
    \/ \E lookup \in lookups, result \in LedgerResults :
          handleManualLookupAnswered(lookup, result)
    \/ \E lookup \in lookups : handleManualLookupFailed(lookup)
    \/ \E result \in LedgerResults : handleLogSuggestedMeal(result, MaxMeals)
    \/ DailyEffect
    \/ handleLogout
    \/ \E input \in LedgerSignUpInputs :
          handleSignUp(input, "a.b@x.io", "Non-Vegetarian", << >>)
    \/ ClockChange

Spec == Init /\ [][NextLedger]_vars

\* The ledger and the weight log under changing identities
NextIdentity ==
    \/ NextLedger
    \/ \E email \in LedgerEmails : handleLogin(email)
    \/ handleWeightSubmit("72")

SpecIdentity == Init /\ [][NextIdentity]_vars

\* Meal logging within one day, over every kind of service result
NextSum ==
    \/ \E mealName \in MealNames : handleManualLookup(mealName, MaxSumMeals)
    \/ \E lookup \in lookups, result \in SumResults :
          handleManualLookupAnswered(lookup, result)
    \/ DailyEffect

SpecSum == Init /\ [][NextSum]_vars

\* The weight log: submissions, sign-up, the weight sync, the profile page
NextWeight ==
    \/ \E input \in WeightInputs : handleWeightSubmit(input)
    \/ \E input \in WeightInputs :
          handleSignUp(input, "a.b@x.io", "Non-Vegetarian", << >>)
    \/ \E input \in ProfileWeightInputs : handleProfileWeightChange(input)
    \/ handleProfileWeightMinus
    \/ handleProfileWeightPlus
    \/ calculateHealthMetrics
    \/ DailyEffect
    \/ ClockChange

SpecWeight == Init /\ [][NextWeight]_vars

\* The server's pipeline: one request of /api/process-ingredients
NextServer ==
    \/ \E text \in Texts, hasFile \in BOOLEAN : processIngredients(text, hasFile)
    \/ \E parsedText \in Texts : processIngredientsOcrAnswered(parsedText)
    \/ processIngredientsFailed
    \/ processIngredientsSearchAnswered

SpecServer == Init /\ [][NextServer]_vars

\* The server's pipeline, no call staying pending for ever: a call that is not
\* answered is rejected in the end (the connection fails or times out)
SpecServerLive == SpecServer /\ WF_vars(processIngredientsFailed)

\* The client's pipeline: processImage
NextClient ==
    \/ processImage(MaxRuns)
    \/ \E run \in runs, text \in OcrTexts : processImageOcrAnswered(run, text)
    \/ \E run \in runs : processImageFailed(run)
    \/ \E run \in runs, answer \in { "recipes", "warning", "error" } :
          processImageSearchAnswered(run, answer)
    \/ DailyEffect

SpecClient == InitClient /\ [][NextClient]_vars

\* processImage over any list of restrictions
SpecProfile == InitProfile /\ [][NextClient]_vars

\* Clicks of the Find Recipes button while earlier runs are in flight
NextRuns ==
    \/ processImage(MaxConcurrentRuns)
    \/ \E run \in runs, text \in OcrTexts : processImageOcrAnswered(run, text)
    \/ \E run \in runs : processImageFailed(run)
    \/ \E run \in runs, answer \in { "recipes", "warning", "error" } :
          processImageSearchAnswered(run, answer)
    \/ DailyEffect

SpecRuns == InitRuns /\ [][NextRuns]_vars

\* Sign-ups, in the app and at the server
NextSignUp ==
    \/ \E input \in SignUpWeights, email \in SignUpEmails :
          handleSignUp(input, email, "Non-Vegetarian", << >>)
    \/ \E input \in SignUpWeights, email \in SignUpEmails, saved \in BOOLEAN :
          signup(email, input, saved)
    \/ DailyEffect
    \/ ClockChange

SpecSignUp == Init /\ [][NextSignUp]_vars

----------------------------------------------------------------------------
(* Steps and states the properties speak about *)

\* This step is a run of the daily effect (with the effect pending, only the
\* effect and the clock can move, and the effect does not touch the clock)
EffectRuns == effectPending /\ today' = today /\ last'.op = "effect"

\* The effect that ran last found another day on the clock and rolled over
RolledOver == last.op = "effect" /\ last.from # currentDateKey

\* Number of archive entries for a day
ArchiveCount(log, day) == Cardinality({ i \in 1..Len(log) : log[i].date = day })

\* A field of an archive entry, an absent field read as 0
FieldOf(entry, f) == IF f \in DOMAIN entry THEN entry[f] ELSE 0

\* The amount an input value stands for: a number or a numeric text is its
\* number, a missing or unparsable value is 0
Counted(v) == IF v.t \in {"num", "numstr"} THEN v.n ELSE 0

RECURSIVE SumOfField(_, _)
SumOfField(results, k) ==
    IF results = << >> THEN 0
    ELSE Counted(Head(results).nutrients[ServiceKey(k)]) + SumOfField(Tail(results), k)

\* The summary the program builds when it logs results in the given order
RECURSIVE LoggedInOrder(_)
LoggedInOrder(results) ==
    IF results = << >> THEN ZeroSummary
    ELSE Accumulate(LoggedInOrder(SubSeq(results, 1, Len(results) - 1)),
                    MealDataOf(results[Len(results)]))

Orders(n) == { p \in [1..n -> 1..n] : \A i, j \in 1..n : p[i] = p[j] => i = j }

----------------------------------------------------------------------------
(* C1: within one day, each of the 13 fields of the summary is the sum of that
   field over the logged meals, a missing or unparsable field counting as 0,
   and logging the same meals in any other order gives the same summary. *)
C1_SummaryIsSumOfMeals ==
    /\ \A k \in NutrientKeys : dailyNutritionSummary[k] = SumOfField(logged, k)
    /\ \A p \in Orders(Len(logged)) :
          LoggedInOrder([i \in 1..Len(logged) |-> logged[p[i]]]) = dailyNutritionSummary

C1_Witness ==
    /\ Len(logged) = 2
    /\ logged[1] # logged[2]
    /\ logged[1].nutrients["fiber"] = NaNv
    /\ logged[1].nutrients["calories"] = Undef
    /\ logged[2].nutrients["fiber"] = NumStr(2)
    /\ dailyNutritionSummary["FiberContent"] = 2
    /\ dailyNutritionSummary["Calories"] = 1

(* C2: when the rollover check runs again right after a rollover of a day with
   Calories > 0 and observes the same new day, the archive holds exactly one
   entry for the old day and the run changes nothing of the ledger. *)
C2_SecondCheckChangesNothing ==
    [][ ( /\ RolledOver
          /\ last.summary["Calories"] > 0
          /\ EffectRuns
          /\ today = currentDateKey )
        => /\ ArchiveCount(historicalLog', last.from) = 1
           /\ UNCHANGED << currentDateKey, dailyNutritionSummary, dailyMealLog,
                           historicalLog >> ]_vars

C2_Witness ==
    /\ last.op = "effect"
    /\ last.rolledBefore # 0
    /\ last.from = currentDateKey
    /\ ArchiveCount(historicalLog, last.rolledBefore) = 1

(* C3: the archive never holds two entries for one day. *)
C3_OneEntryPerDay ==
    \A i, j \in 1..Len(historicalLog) :
        historicalLog[i].date = historicalLog[j].date => i = j

\* a rollover found the old day archived already, with other content
C3_Witness ==
    /\ RolledOver
    /\ last.summary["Calories"] > 0
    /\ \E i \in 1..Len(historicalLog) :
          /\ historicalLog[i].date = last.from
          /\ historicalLog[i].Calories # last.summary["Calories"]

(* C4: the archive never holds an entry for currentDateKey, whatever days the
   rollover check observes. *)
C4_ArchiveExcludesCurrentDay ==
    \A i \in 1..Len(historicalLog) : historicalLog[i].date # currentDateKey

(* C5: a rollover that finds Calories = 0 in the summary inserts nothing into
   the archive, whatever the other nutrients and the meal log hold. *)
C5_ZeroCalorieDayNotArchived ==
    [][ (EffectRuns /\ currentDateKey # today /\ dailyNutritionSummary["Calories"] = 0)
        => historicalLog' = historicalLog ]_vars

C5_Witness ==
    /\ RolledOver
    /\ last.summary["Calories"] = 0
    /\ last.summary["FiberContent"] > 0
    /\ ArchiveCount(historicalLog, last.from) = 0

(* C6: a rollover check that observes another day than currentDateKey leaves, in
   one step, the summary all zero, the meal log empty and currentDateKey the
   observed day; currentDateKey never changes in any other way. *)
C6_RolloverIsOneStep ==
    [][ /\ (EffectRuns /\ currentDateKey # today)
            => /\ dailyNutritionSummary' = ZeroSummary
               /\ dailyMealLog' = << >>
               /\ currentDateKey' = today
        /\ currentDateKey' # currentDateKey
            => /\ dailyNutritionSummary' = ZeroSummary
               /\ dailyMealLog' = << >>
               /\ currentDateKey' = today ]_vars

C6_Witness ==
    /\ RolledOver
    /\ last.summary # ZeroSummary
    /\ dailyNutritionSummary = ZeroSummary
    /\ dailyMealLog = << >>
    /\ currentDateKey = today

(* C7: after a rollover with Calories > 0 the archive entry of the old day, as
   held and as stored and reloaded through HistoricalLogSchema, equals the
   summary before the rollover on each of the 13 nutrient fields. *)
C7_ArchivedEntryRoundTrips ==
    (RolledOver /\ last.summary["Calories"] > 0)
    => \E i \in 1..Len(historicalLog) :
          /\ historicalLog[i].date = last.from
          /\ \A k \in NutrientKeys :
                /\ FieldOf(historicalLog[i], k) = last.summary[k]
                /\ FieldOf(HistoricalLogSchema(historicalLog[i]), k) = last.summary[k]

----------------------------------------------------------------------------
\* An accepted weight was written since the first render
WeightWritten == \E d \in Days : lastUpsert[d] # NoWeight

\* The input stands for a finite number greater than 0
FinitePositive(input) == input \in { "65.5", "72" }

\* This step is a submission of the weight form
WeightSubmitted == last'.op = "handleWeightSubmit" /\ weightCount' = weightCount + 1

(* C8: after weight upserts and sign-ups the weight log has no two entries for
   one day, and the entry of a day holds the weight written last for it. *)
C8_OneWeightPerDay ==
    WeightWritten
    => /\ \A i, j \in 1..Len(weightLog) : weightLog[i].date = weightLog[j].date => i = j
       /\ \A i \in 1..Len(weightLog) :
             (weightLog[i].date \in Days /\ lastUpsert[weightLog[i].date] # NoWeight)
             => weightLog[i].weight = lastUpsert[weightLog[i].date]

(* C9: after every mutation the weight log is sorted strictly descending by
   date, so index 0 holds the greatest day. *)
C9_SortedStrictlyDescending ==
    WeightWritten
    => /\ \A i \in 1..(Len(weightLog) - 1) : weightLog[i].date > weightLog[i + 1].date
       /\ \A i \in 1..Len(weightLog) : weightLog[1].date >= weightLog[i].date

(* C10: a weight submission whose weight is not a finite number greater than 0
   ends in the input error and leaves the weight log and the tracked weight
   as they were. *)
C10_InvalidWeightRejected ==
    [][ (WeightSubmitted /\ ~FinitePositive(last'.input))
        => /\ alerted'
           /\ weightLog' = weightLog
           /\ weight' = weight ]_vars

----------------------------------------------------------------------------
(* What the claims about the pipeline speak about *)

\* The positions before, between and after the lines of a text
Breaks(text) == { 0, Len(text) + 1 } \cup { i \in 1..Len(text) : text[i] = "\n" }

\* The k-th smallest of a set of numbers
Kth(set, k) == CHOOSE x \in set : Cardinality({ y \in set : y < x }) = k - 1

LineCount(text) == Cardinality(Breaks(text)) - 1

\* The k-th line of a text
LineOf(text, k) ==
    SubSeq(text, Kth(Breaks(text), k) + 1, Kth(Breaks(text), k + 1) - 1)

\* t is l without the white space at its ends
IsTrimOf(t, l, i, j) ==
    /\ t = SubSeq(l, i, j)
    /\ \A p \in 1..(i - 1) : l[p] \in WhiteSpace
    /\ \A p \in (j + 1)..Len(l) : l[p] \in WhiteSpace
    /\ t # << >> => (t[1] \notin WhiteSpace /\ t[Len(t)] \notin WhiteSpace)

TrimOf(l) ==
    LET ij == CHOOSE ij \in (1..(Len(l) + 1)) \X (0..Len(l)) :
                  /\ ij[1] <= ij[2] + 1
                  /\ IsTrimOf(SubSeq(l, ij[1], ij[2]), l, ij[1], ij[2])
    IN  SubSeq(l, ij[1], ij[2])

\* word occurs in t
HasWord(t, word) ==
    \E i \in 1..Len(t) :
        /\ i + Len(word) - 1 <= Len(t)
        /\ \A p \in 1..Len(word) : t[i + p - 1] = word[p]

\* The lines of a text that qualify as ingredients, by their numbers
Qualifying(text) ==
    { k \in 1..LineCount(text) :
        LET t == TrimOf(LineOf(text, k))
        IN  /\ Len(t) > 3
            /\ ~HasWord(t, << "T", "o", "t", "a", "l" >>)
            /\ ~HasWord(t, << "$" >>)
            /\ ~HasWord(t, << "S", "u", "b", "t", "o", "t", "a", "l" >>) }

\* The meat and fish set of the specification
MeatAndFish ==
    << << "p", "o", "r", "k" >>, << "b", "e", "e", "f" >>,
       << "c", "h", "i", "c", "k", "e", "n" >>, << "l", "a", "m", "b" >>,
       << "t", "u", "r", "k", "e", "y" >>, << "f", "i", "s", "h" >>,
       << "s", "h", "e", "l", "l", "f", "i", "s", "h" >> >>

(* C12: the ingredient list of a text is its first 10 (or fewer) qualifying
   lines, trimmed and in the order of the text, a line qualifying when its
   trimmed length exceeds 3 and it holds none of Total, $ and Subtotal; it is
   the empty list when no line qualifies. *)
C12_ExtractKeepsFirstTenCleanLines ==
    LET text == lastExtract.parsedText
        list == lastExtract.ingredientList
        count == IF Cardinality(Qualifying(text)) < 10 THEN Cardinality(Qualifying(text))
                 ELSE 10
    IN  /\ Len(list) = count
        /\ \A m \in 1..count : list[m] = TrimOf(LineOf(text, Kth(Qualifying(text), m)))

\* a text of 12 lines, 11 of them qualifying
C12_Witness ==
    /\ LineCount(lastExtract.parsedText) = 12
    /\ Cardinality(Qualifying(lastExtract.parsedText)) = 11
    /\ 2 \notin Qualifying(lastExtract.parsedText)
    /\ Len(lastExtract.ingredientList) = 10
    /\ lastExtract.ingredientList[2] = Item(3)

(* C13: no recipe search is requested for a text whose ingredient list is
   empty, by the server's handler or by processImage, and the server answers
   such a text with an input error. *)
C13_NoSearchWithoutIngredients ==
    /\ \A i \in 1..Len(getRecipesSent) :
          ingredientList(getRecipesSent[i].ingredients) # << >>
    /\ \A i \in 1..Len(spoonacularSent) : spoonacularSent[i].ingredients # << >>
    /\ (lastExtract.parsedText # << >> /\ lastExtract.ingredientList = << >>)
          => /\ spoonacularSent = << >>
             /\ \E i \in 1..Len(responses) : responses[i].status = 400

(* C14: the excludeIngredients of every request of processImage is the
   profile's exclusion tags in their order, followed for Vegetarian, Vegan and
   Eggetarian (and for no other meal type) by pork, beef, chicken, lamb,
   turkey, fish, shellfish, joined by commas. *)
C14_ExcludeIngredients ==
    \A i \in 1..Len(getRecipesSent) :
        getRecipesSent[i].restrictions.excludeIngredients =
            Join(dietPreference \o (IF mealTypePreference \in
                                        { "Vegetarian", "Vegan", "Eggetarian" }
                                    THEN MeatAndFish ELSE << >>),
                 << "," >>)

C14_Witness ==
    /\ Len(getRecipesSent) = 1
    /\ mealTypePreference = "Eggetarian"
    /\ Len(dietPreference) = 2
    /\ Len(getRecipesSent[1].restrictions.excludeIngredients) > 50

(* C15: the diet of every request of processImage is vegetarian exactly for
   Vegetarian, vegan exactly for Vegan, and empty for Eggetarian and
   Non-Vegetarian. *)
C15_Diet ==
    \A i \in 1..Len(getRecipesSent) :
        LET diet == getRecipesSent[i].restrictions.diet
        IN  /\ diet = "vegetarian" <=> mealTypePreference = "Vegetarian"
            /\ diet = "vegan" <=> mealTypePreference = "Vegan"
            /\ diet = "" <=> mealTypePreference \in { "Eggetarian", "Non-Vegetarian" }

C15_Witness ==
    /\ Len(getRecipesSent) = 1
    /\ mealTypePreference = "Eggetarian"
    /\ getRecipesSent[1].restrictions.diet = ""
    /\ runs = {}

(* C16: every request to the recipe search carries the ingredient list joined
   by commas, the resolved excludeIngredients and diet, a result count of 6
   and the ranking that maximizes the ingredients used. *)
C16_RequestCarriesQueryAndPolicy ==
    /\ \A i \in 1..Len(spoonacularSent) :
          /\ spoonacularSent[i].ingredients = Join(lastExtract.ingredientList, << "," >>)
          /\ spoonacularSent[i].number = 6
          /\ spoonacularSent[i].ranking = 2
          /\ { "excludeIngredients", "diet" } \subseteq DOMAIN spoonacularSent[i]
    /\ \A i \in 1..Len(getRecipesSent) :
          /\ getRecipesSent[i].ingredients =
                 Join(ingredientList(getRecipesSent[i].ingredients), << "," >>)
          /\ { "excludeIngredients", "diet" } \subseteq DOMAIN getRecipesSent[i].restrictions
          /\ { "number", "ranking" } \subseteq DOMAIN getRecipesSent[i]

----------------------------------------------------------------------------
\* This step is a run of handleLogout (after it the effect is pending, and the
\* effect's run replaces last)
LogoutRuns == ~effectPending /\ last'.op = "handleLogout"

\* This step logs a meal
MealLogged == mealCount' = mealCount + 1

(* C11: whenever the weight log is not empty and the profile's calculation can
   run, the tracked weight is the weight of the log's first entry, and the
   metrics calculateHealthMetrics computed last were computed from it. *)
C11_TrackedWeightIsLatest ==
    /\ (~effectPending /\ Len(weightLog) > 0) => weight = weightLog[1].weight
    /\ (last.op = "calculateHealthMetrics" /\ ~healthMetrics.error /\ Len(weightLog) > 0)
          => healthMetrics.weight = weightLog[1].weight

(* C17: logout leaves the summary all zero and the meal log empty, and leaves
   the archive, the weight log and currentDateKey as they were. *)
C17_LogoutFrame ==
    [][ LogoutRuns
        => /\ dailyNutritionSummary' = ZeroSummary
           /\ dailyMealLog' = << >>
           /\ UNCHANGED << historicalLog, weightLog, currentDateKey >> ]_vars

\* a logout on a day with meals, an earlier day of the session being archived
C17_Witness ==
    /\ last.op = "handleLogout"
    /\ last.summary # ZeroSummary
    /\ dailyNutritionSummary = ZeroSummary
    /\ dailyMealLog = << >>
    /\ currentDateKey = last.from
    /\ \E i \in 1..Len(historicalLog) : historicalLog[i].date \in Days
    /\ Len(weightLog) > 0

(* C18: no part of the state holds data logged under another identity than the
   one signed in. *)
C18_StateOwnedByOneIdentity ==
    \A c \in Parts : owner[c] \subseteq { userProfile.email }

(* C19: a run of the rollover check that observes currentDateKey on the clock
   changes none of the summary, the meal log, the archive and currentDateKey. *)
C19_SameDayCheckIsNoOp ==
    [][ (EffectRuns /\ currentDateKey = today)
        => UNCHANGED << dailyNutritionSummary, dailyMealLog, historicalLog,
                        currentDateKey >> ]_vars

\* the check ran on a day with meals and left them
C19_Witness ==
    /\ last.op = "effect"
    /\ last.from = currentDateKey
    /\ last.summary # ZeroSummary
    /\ dailyNutritionSummary = last.summary
    /\ Len(dailyMealLog) = 2

(* C20: a step that logs a meal appends one entry to the meal log, holding the
   meal's name, its Calories and currentDateKey, and keeps the earlier entries;
   any other step leaves the meal log as it is, or is a rollover or a logout
   and leaves it empty. *)
C20_MealLogAppendOnly ==
    [][ /\ MealLogged
            => /\ Len(dailyMealLog') = Len(dailyMealLog) + 1
               /\ SubSeq(dailyMealLog', 1, Len(dailyMealLog)) = dailyMealLog
               /\ LET entry == dailyMealLog'[Len(dailyMealLog')]
                      result == logged'[Len(logged')]
                  IN  /\ entry.name = IF result.title # "" THEN result.title
                                      ELSE IF last'.op = "handleManualLookup"
                                           THEN last'.input ELSE ""
                      /\ entry.calories = ToFixed2(Counted(result.nutrients["calories"]))
                      /\ entry.dateKey = currentDateKey
        /\ ~MealLogged
            => \/ dailyMealLog' = dailyMealLog
               \/ /\ dailyMealLog' = << >>
                  /\ last'.op \in { "effect", "handleLogout" } ]_vars

----------------------------------------------------------------------------
(* C21: the summary always has the 13 nutrient keys and none of them is
   negative, whatever nutrient values the lookup or recipe service delivers. *)
C21_SummaryNeverNegative ==
    /\ DOMAIN dailyNutritionSummary = NutrientKeys
    /\ \A k \in NutrientKeys : dailyNutritionSummary[k] >= 0

----------------------------------------------------------------------------
\* A character that cannot stand at an end of a token
Blank == WhiteSpace \cup { "," }

(* C22: for every list of exclusion tags (empty tags, tags with commas or with
   white space around them included) the excludeIngredients of a request has no
   comma and no white space at its ends, no two commas in a row and no white
   space next to a comma, so no token is empty or untrimmed; splitting it at
   the commas, trimming, dropping the empty tokens and joining again gives the
   same string. *)
C22_ExcludeIngredientsIsClean ==
    \A i \in 1..Len(getRecipesSent) :
        LET s == getRecipesSent[i].restrictions.excludeIngredients
        IN  /\ s # << >> => (s[1] \notin Blank /\ s[Len(s)] \notin Blank)
            /\ \A p \in 1..(Len(s) - 1) :
                  /\ s[p] = "," => s[p + 1] \notin Blank
                  /\ s[p + 1] = "," => s[p] \notin Blank
            /\ CleanCommas(s) = s

\* a request whose tags were an empty one and 'soy,, oat'
C22_Witness ==
    /\ Len(getRecipesSent) = 1
    /\ mealTypePreference = "Non-Vegetarian"
    /\ dietPreference = << << >>, << "s", "o", "y", ",", ",", " ", "o", "a", "t" >> >>
    /\ getRecipesSent[1].restrictions.excludeIngredients =
           << "s", "o", "y", ",", "o", "a", "t" >>

----------------------------------------------------------------------------
\* The calls of the request to a service
CallsTo(service) == { i \in 1..Len(externalCalls) : externalCalls[i].service = service }

\* The calls that failed
FailedCalls == { i \in 1..Len(externalCalls) : externalCalls[i].outcome = "failed" }

(* C23: when a call to the OCR or the recipe service fails, the request has
   ended with one error response that carries a message; no call follows a
   failed call, so no recipe request follows a failed OCR; no service is
   called twice; a request never has two responses, has one when the handler
   is done, and the handler is done in the end. *)
C23_FailureEndsInOneErrorResponse ==
    /\ [] ( /\ FailedCalls # {}
                => /\ serverRuns = {}
                   /\ Len(responses) = 1
                   /\ responses[1].status >= 400
                   /\ responses[1].error # ""
            /\ \A i \in FailedCalls : i = Len(externalCalls)
            /\ \A service \in { "ocr", "search" } : Cardinality(CallsTo(service)) <= 1
            /\ Len(responses) <= 1
            /\ serverRuns # {} => responses = << >>
            /\ (pipeCount = 1 /\ serverRuns = {}) => Len(responses) = 1 )
    /\ (pipeCount = 1) ~> (serverRuns = {} /\ Len(responses) = 1)

\* the OCR call of a request failed
C23_Witness ==
    /\ externalCalls = << [service |-> "ocr", outcome |-> "failed"] >>
    /\ spoonacularSent = << >>
    /\ Len(responses) = 1
    /\ responses[1].status = 500

----------------------------------------------------------------------------
(* C24: every entry of the meal log carries currentDateKey, also when a
   nutrition lookup started before a rollover logs its meal after it. *)
C24_MealLogEntriesAreOfCurrentDay ==
    \A i \in 1..Len(dailyMealLog) : dailyMealLog[i].dateKey = currentDateKey

----------------------------------------------------------------------------
\* The meal logged last
LastMeal == logged[Len(logged)]

(* C25: when a meal was logged while the clock showed another day than
   currentDateKey, the rollover that follows leaves the meal in the new day's
   summary and meal log, and what it archives under the old day does not hold
   the meal's nutrients. *)
C25_LateMealCountsForNewDay ==
    [][ (EffectRuns /\ last.late /\ currentDateKey # today)
        => /\ \A k \in NutrientKeys :
                 dailyNutritionSummary'[k] = Counted(LastMeal.nutrients[ServiceKey(k)])
           /\ Len(dailyMealLog') = 1
           /\ \A i \in 1..Len(historicalLog') :
                 (historicalLog'[i].date = currentDateKey /\ ~HasDate(historicalLog, currentDateKey))
                 => \A k \in NutrientKeys :
                       FieldOf(historicalLog'[i], k) =
                           dailyNutritionSummary[k] - Counted(LastMeal.nutrients[ServiceKey(k)]) ]_vars

----------------------------------------------------------------------------
(* C26: at most one run of processImage is in flight, and the recipes shown
   are those of the run started last. *)
C26_OneRunInFlight ==
    /\ Cardinality(runs) <= 1
    /\ recipes # NoRecipes => recipes.from = pipeCount

----------------------------------------------------------------------------
\* This step is a sign-up in the app
SignUpRuns == ~effectPending /\ last'.op = "handleSignUp"

\* The input is no number, or is 0
UnparsableOrZero(input) == input \in { "", "abc", "0" }

(* C27: right after a sign-up, in the app and in the user the server stores,
   the archive is empty, the weight log has exactly one entry, dated today,
   and the current weight is that entry's weight: 70 when the submitted
   weight is unparsable or 0. *)
C27_SignUpState ==
    [][ /\ SignUpRuns
            => /\ historicalLog' = << >>
               /\ Len(weightLog') = 1
               /\ weightLog'[1].date = today
               /\ weight' = weightLog'[1].weight
               /\ UnparsableOrZero(last'.input) => weight' = Num(700)
        /\ \A u \in users' \ users :
               /\ u.historicalLog = << >>
               /\ Len(u.weightLog) = 1
               /\ u.weightLog[1].date = today
               /\ u.weight = u.weightLog[1].weight
               /\ UnparsableOrZero(lastSignup'.weight) => u.weight = Num(700) ]_vars

\* a sign-up in the app with the weight '0', and a stored user of the server,
\* signed up with the weight 'abc'
C27_Witness ==
    /\ last.op = "handleSignUp"
    /\ last.input = "0"
    /\ historicalLog = << >>
    /\ weightLog = << [date |-> today, weight |-> Num(700)] >>
    /\ lastSignup.status = 201
    /\ lastSignup.weight = "abc"
    /\ \E u \in users : u.email = lastSignup.email /\ u.weight = Num(700)

----------------------------------------------------------------------------
(* C28: the entry a manual nutrition lookup appends to the meal log has the
   source kind Manual, the entry a chosen recipe appends has the kind Recipe. *)
C28_SourceKindOfEntry ==
    [][ MealLogged
        => LET entry == dailyMealLog'[Len(dailyMealLog')]
           IN  /\ last'.op = "handleManualLookup" => entry.type = "Manual"
               /\ last'.op = "handleLogSuggestedMeal" => entry.type = "Recipe" ]_vars

----------------------------------------------------------------------------
(* C29: the ingredient list of a text, joined by line breaks and cleaned up
   again, is the same list. *)
C29_ExtractIsIdempotent ==
    ingredientList(Join(lastExtract.ingredientList, << "\n" >>)) = lastExtract.ingredientList

\* a text the clean-up changed: a dropped line, and white space around an item
C29_Witness ==
    /\ lastExtract.parsedText =
           << "T", "o", "t", "a", "l", ":", " ", "$", "5", "\n", " ", " ", "R", "i", "c", "e", " " >>
    /\ lastExtract.ingredientList = << << "R", "i", "c", "e" >> >>

----------------------------------------------------------------------------
\* The tokens of a comma-separated string
Tokens(s) == IF s = << >> THEN << >> ELSE Split(s, ",")

(* C30: no token occurs twice in the excludeIngredients of a request, also
   when a checked tag (fish, pork, beef) is in the meat and fish set appended
   for Vegetarian, Vegan and Eggetarian. *)
C30_NoDuplicateToken ==
    \A i \in 1..Len(getRecipesSent) :
        LET tokens == Tokens(getRecipesSent[i].restrictions.excludeIngredients)
        IN  \A p, q \in 1..Len(tokens) : tokens[p] = tokens[q] => p = q

====
